---- MODULE Spec2Model ----
(***************************************************************************)
(* A model of the event side of the cqrs package: the map based event     *)
(* dispatcher, the dispatch manager's Listen loop and the in-memory event *)
(* bus (src/events.go), with the goroutines and unbuffered channels of    *)
(* the Go code as processes and rendezvous steps.                         *)
(***************************************************************************)
EXTENDS Naturals, Integers, Sequences, FiniteSets, TLC

\* ------------------------------------------------------------------ bounds
\* payload types, handlers, registration calls, publishers, items published,
\* Listen calls, transport errors
NumTypes == 2
NumHandlers == 3
MaxRegistrations == 3
NumPubs == 2
MaxItems == 3
NumLoops == 2
NumErrors == 2

Types == 1..NumTypes
Handlers == 1..NumHandlers
Pubs == 1..NumPubs
Loops == 1..NumLoops

\* ------------------------------------------------------------------ values
\* the nil error
Nil == <<>>
\* the error value returned by handler h when it fails
HandlerErr(h) == <<"handler", h>>
\* the errors a receiver can report
Errors == {<<"transport", n>> : n \in 1..NumErrors}

\* an event: the n-th item publisher p has passed to PublishEvents, with the
\* type of its payload
Items == [pub : Pubs, seq : 1..MaxItems, type : Types]
NoItem == [pub |-> 0, seq |-> 0, type |-> 0]

VARIABLES
  registry,        \* MapBasedVersionedEventDispatcher.registry: type -> handlers
  globalHandlers,  \* MapBasedVersionedEventDispatcher.globalHandlers
  typeRegistry,    \* the types registered with the manager's TypeRegistry
  regLog,          \* history: the registration calls made, in call order
  lastDispatch,    \* history: the last DispatchEvent call and what it did
  startReceiving,  \* InMemoryEventBus.startReceiving
  busPc,           \* per ReceiveEvents call: where its goroutine stands
  busCur,          \* per ReceiveEvents call: versionedEvent of its goroutine
  taken,           \* history: the items received from publishedEventsChannel
  closed,          \* history: the loops whose close request was answered
  ackCh,           \* per ReceiveEvents call: the ackCh its goroutine made for busCur
  chanCount,       \* the number of acknowledgment channels made so far
  pubPc,           \* per publisher: where its PublishEvents call stands
  pubBatch,        \* per publisher: the events of its current (or last) call
  pubIdx,          \* per publisher: how many of them have been sent
  pubSeq,          \* per publisher: the items passed to PublishEvents so far
  dropped,         \* history: the items of calls that returned at line 206
  listenPc,        \* per Listen call: where it stands
  listenCur,       \* per Listen call: the item received and not yet acknowledged
  listenErr,       \* per Listen call: what DispatchEvent returned for listenCur
  listenRet,       \* per Listen call: the value Listen returned
  delivered,       \* history, per Listen call: the items received, in order
  acked,           \* history: the items whose acknowledgment was sent
  failed,          \* history: the items whose dispatch returned an error
  listenAckCh,     \* per Listen call: ProcessedSuccessfully of the item received
  ackLog,          \* history, per Listen call: the channels it sent true on, in order
  inHandler,       \* per Listen call: the publisher whose PublishEvents call a handler is in
  stopPc,          \* per Listen call: the task sending the stop signal
  recvPc,          \* per Listen call on some other receiver: its event goroutine
  recvCur,         \* per Listen call on some other receiver: the item it hands over
  errPc,           \* per Listen call on some other receiver: its error goroutine
  errVal,          \* per Listen call on some other receiver: the error it sends
  startErr,        \* per Listen call on some other receiver: what ReceiveEvents returned
  testPc,          \* where the test's main goroutine stands
  testGot,         \* the item the test took from its receive channel
  budget           \* the number of items the callers of PublishEvents publish in all

dispVars == <<registry, globalHandlers, typeRegistry, regLog, lastDispatch>>
busVars == <<busPc, busCur, taken, closed, ackCh, chanCount>>
pubVars == <<pubPc, pubBatch, pubIdx, pubSeq, dropped>>
listenVars == <<listenPc, listenCur, listenErr, listenRet, delivered, acked, failed,
                listenAckCh, ackLog>>
recvVars == <<recvPc, recvCur, errPc, errVal, startErr>>
testVars == <<testPc, testGot>>
otherVars == <<recvVars, testVars, budget, inHandler>>
vars == <<dispVars, startReceiving, busVars, pubVars, listenVars, stopPc, otherVars>>

\* ------------------------------------------------------- the dispatcher
\* NewVersionedEventDispatcher: an empty map and an empty global list
NewRegistry == [t \in {} |-> <<>>]
NewGlobalHandlers == <<>>

\* RegisterEventHandler written with the handler put first: a faulty variant
RegisterEventHandlerPrepend(reg, t, h) ==
  IF t \in DOMAIN reg
    THEN [reg EXCEPT ![t] = <<h>> \o @]
    ELSE [x \in DOMAIN reg \cup {t} |-> IF x = t THEN <<h>> ELSE reg[x]]

\* RegisterEventHandler storing a new map that holds the one type only: a
\* faulty variant
RegisterEventHandlerNewMap(reg, t, h) ==
  [x \in {t} |-> IF t \in DOMAIN reg THEN Append(reg[t], h) ELSE <<h>>]

\* MapBasedVersionedEventDispatcher.RegisterEventHandler
RegisterEventHandler(reg, t, h) ==
  IF t \in DOMAIN reg
    THEN [reg EXCEPT ![t] = Append(@, h)]
    ELSE [x \in DOMAIN reg \cup {t} |-> IF x = t THEN <<h>> ELSE reg[x]]

\* MapBasedVersionedEventDispatcher.RegisterGlobalHandler
RegisterGlobalHandler(glob, h) == Append(glob, h)

\* one `for _, handler := range handlers` loop: the handlers are called in
\* order, the first error is returned at once; invoked is the calls made
RECURSIVE RunHandlers(_, _, _)
RunHandlers(handlers, failing, invoked) ==
  IF handlers = <<>>
    THEN [err |-> Nil, invoked |-> invoked]
    ELSE LET h == Head(handlers) IN
         IF h \in failing
           THEN [err |-> HandlerErr(h), invoked |-> Append(invoked, h)]
           ELSE RunHandlers(Tail(handlers), failing, Append(invoked, h))

\* DispatchEvent that goes on to the global handlers after a failed
\* type-specific handler: a faulty variant
DispatchEventNoShortCircuit(reg, glob, failing, t) ==
  LET typed == IF t \in DOMAIN reg
                 THEN RunHandlers(reg[t], failing, <<>>)
                 ELSE [err |-> Nil, invoked |-> <<>>]
      rest == RunHandlers(glob, failing, typed.invoked)
  IN  IF typed.err # Nil
        THEN [err |-> typed.err, invoked |-> rest.invoked]
        ELSE rest

\* MapBasedVersionedEventDispatcher.DispatchEvent for an event whose payload
\* has type t, when the handlers in failing return an error
DispatchEvent(reg, glob, failing, t) ==
  LET typed == IF t \in DOMAIN reg
                 THEN RunHandlers(reg[t], failing, <<>>)
                 ELSE [err |-> Nil, invoked |-> <<>>]
  IN  IF typed.err # Nil
        THEN typed
        ELSE RunHandlers(glob, failing, typed.invoked)

NoDispatch == [type |-> 0, failing |-> {}, err |-> Nil, invoked |-> <<>>]

\* VersionedEventDispatchManager.RegisterEventHandler
ManagerRegisterEventHandler(t, h) ==
  /\ Len(regLog) < MaxRegistrations
  /\ lastDispatch = NoDispatch
  /\ typeRegistry' = typeRegistry \cup {t}
  /\ registry' = RegisterEventHandler(registry, t, h)
  /\ regLog' = Append(regLog, [type |-> t, handler |-> h])
  /\ UNCHANGED <<lastDispatch, globalHandlers, startReceiving, busVars, pubVars, listenVars, stopPc, otherVars>>

\* VersionedEventDispatchManager.RegisterGlobalHandler (type 0: global)
ManagerRegisterGlobalHandler(h) ==
  /\ Len(regLog) < MaxRegistrations
  /\ lastDispatch = NoDispatch
  /\ globalHandlers' = RegisterGlobalHandler(globalHandlers, h)
  /\ regLog' = Append(regLog, [type |-> 0, handler |-> h])
  /\ UNCHANGED <<lastDispatch, registry, typeRegistry, startReceiving, busVars, pubVars, listenVars, stopPc, otherVars>>

\* a call of DispatchEvent on the dispatcher as registered so far; the calls
\* on a dispatcher do not overlap (it has no lock), and lastDispatch shows
\* what the call did until it returns
Dispatch(t, failing) ==
  /\ lastDispatch = NoDispatch
  /\ lastDispatch' =
       LET r == DispatchEvent(registry, globalHandlers, failing, t)
       IN  [type |-> t, failing |-> failing, err |-> r.err, invoked |-> r.invoked]
  /\ UNCHANGED <<registry, globalHandlers, typeRegistry, regLog>>
  /\ UNCHANGED <<startReceiving, busVars, pubVars, listenVars, stopPc, otherVars>>

\* the DispatchEvent call returns
DispatchReturn ==
  /\ lastDispatch # NoDispatch
  /\ lastDispatch' = NoDispatch
  /\ UNCHANGED <<registry, globalHandlers, typeRegistry, regLog>>
  /\ UNCHANGED <<startReceiving, busVars, pubVars, listenVars, stopPc, otherVars>>

InitDispatcher ==
  /\ registry = NewRegistry
  /\ globalHandlers = NewGlobalHandlers
  /\ typeRegistry = {}
  /\ regLog = <<>>
  /\ lastDispatch = NoDispatch

\* the bus, the publishers and the Listen loops before any call
InitIdle ==
  /\ startReceiving = FALSE
  /\ busPc = [l \in Loops |-> "none"]
  /\ busCur = [l \in Loops |-> NoItem]
  /\ taken = {}
  /\ closed = {}
  /\ ackCh = [l \in Loops |-> 0]
  /\ chanCount = 0
  /\ pubPc = [p \in Pubs |-> "idle"]
  /\ pubBatch = [p \in Pubs |-> <<>>]
  /\ pubIdx = [p \in Pubs |-> 0]
  /\ pubSeq = [p \in Pubs |-> 0]
  /\ dropped = {}
  /\ listenPc = [l \in Loops |-> "idle"]
  /\ listenCur = [l \in Loops |-> NoItem]
  /\ listenErr = [l \in Loops |-> Nil]
  /\ listenRet = [l \in Loops |-> Nil]
  /\ delivered = [l \in Loops |-> <<>>]
  /\ acked = {}
  /\ failed = {}
  /\ listenAckCh = [l \in Loops |-> 0]
  /\ ackLog = [l \in Loops |-> <<>>]
  /\ inHandler = [l \in Loops |-> 0]
  /\ stopPc = [l \in Loops |-> "idle"]
  /\ recvPc = [l \in Loops |-> "none"]
  /\ recvCur = [l \in Loops |-> NoItem]
  /\ errPc = [l \in Loops |-> "idle"]
  /\ errVal = [l \in Loops |-> Nil]
  /\ startErr = [l \in Loops |-> Nil]
  /\ testPc = "start"
  /\ testGot = NoItem

InitDispatch == InitDispatcher /\ InitIdle /\ budget = MaxItems

NextDispatch ==
  \/ \E t \in Types, h \in Handlers : ManagerRegisterEventHandler(t, h)
  \/ \E h \in Handlers : ManagerRegisterGlobalHandler(h)
  \/ \E t \in Types, failing \in SUBSET Handlers : Dispatch(t, failing)
  \/ DispatchReturn

SpecDispatch == InitDispatch /\ [][NextDispatch]_vars

\* ------------------------------------------------------- the publishers
Range(f) == {f[i] : i \in DOMAIN f}

\* the number of items passed to PublishEvents so far, by all publishers
RECURSIVE SumTo(_, _)
SumTo(f, n) == IF n = 0 THEN 0 ELSE f[n] + SumTo(f, n - 1)
SumSeq(f) == SumTo(f, NumPubs)

\* the batches a PublishEvents call is given, as the payload types of its
\* events, drawn from the types S
BatchesOf(S) == UNION {[1..n -> S] : n \in 0..MaxItems}

MakeItems(p, from, tys) ==
  [i \in 1..Len(tys) |-> [pub |-> p, seq |-> from + i, type |-> tys[i]]]

\* PublishEvents without the test of startReceiving: a faulty variant
PublishEventsNoFlagCheck(p, tys) ==
  /\ pubPc[p] \in {"idle", "returned"}
  /\ SumSeq(pubSeq) + Len(tys) <= budget
  /\ LET batch == MakeItems(p, pubSeq[p], tys) IN
       /\ pubBatch' = [pubBatch EXCEPT ![p] = batch]
       /\ pubSeq' = [pubSeq EXCEPT ![p] = @ + Len(batch)]
       /\ pubPc' = [pubPc EXCEPT ![p] = IF batch = <<>> THEN "returned" ELSE "sending"]
       /\ dropped' = dropped
  /\ pubIdx' = [pubIdx EXCEPT ![p] = 0]

\* InMemoryEventBus.PublishEvents, from the call to the first send: the call
\* returns at once when startReceiving is false (or the batch is empty)
PublishEvents(p, tys) ==
  /\ pubPc[p] \in {"idle", "returned"}
  /\ SumSeq(pubSeq) + Len(tys) <= budget
  /\ LET batch == MakeItems(p, pubSeq[p], tys) IN
       /\ pubBatch' = [pubBatch EXCEPT ![p] = batch]
       /\ pubSeq' = [pubSeq EXCEPT ![p] = @ + Len(batch)]
       /\ IF ~startReceiving
            THEN /\ pubPc' = [pubPc EXCEPT ![p] = "returned"]
                 /\ dropped' = dropped \cup Range(batch)
            ELSE /\ pubPc' = [pubPc EXCEPT ![p] =
                                IF batch = <<>> THEN "returned" ELSE "sending"]
                 /\ dropped' = dropped
  /\ pubIdx' = [pubIdx EXCEPT ![p] = 0]

\* some task of the application calls PublishEvents
PublisherCall(p, tys) ==
  /\ \A l \in Loops : inHandler[l] # p
  /\ PublishEvents(p, tys)
  /\ UNCHANGED <<otherVars, dispVars, startReceiving, busVars, listenVars, stopPc>>

\* the range loop taking the events from the end of the batch: a faulty variant
PubOfferReversed(p) == pubBatch[p][Len(pubBatch[p]) - pubIdx[p]]

\* the event a publisher in its range loop is sending
PubOffer(p) == pubBatch[p][pubIdx[p] + 1]

\* a send that leaves the event with the publisher, to be sent again: a
\* faulty variant
PubSendRepeat(p) ==
  /\ pubPc[p] = "sending"
  /\ UNCHANGED <<pubPc, pubIdx, pubBatch, pubSeq, dropped>>

\* PublishEvents returning after its first send: a faulty variant
PubSendReturnEarly(p) ==
  /\ pubPc[p] = "sending"
  /\ pubIdx' = [pubIdx EXCEPT ![p] = @ + 1]
  /\ pubPc' = [pubPc EXCEPT ![p] = "returned"]
  /\ UNCHANGED <<pubBatch, pubSeq, dropped>>

\* the publisher's side of `bus.publishedEventsChannel <- event` completing:
\* the loop goes to the next event, or PublishEvents returns nil
PubSend(p) ==
  /\ pubPc[p] = "sending"
  /\ pubIdx' = [pubIdx EXCEPT ![p] = @ + 1]
  /\ pubPc' = [pubPc EXCEPT ![p] =
                 IF pubIdx[p] + 1 = Len(pubBatch[p]) THEN "returned" ELSE "sending"]
  /\ UNCHANGED <<pubBatch, pubSeq, dropped>>

\* ---------------------------------------- the in-memory bus's goroutine
\* ReceiveEvents leaving startReceiving as it is: a faulty variant
ReceiveEventsNoFlag(l) ==
  /\ startReceiving' = startReceiving
  /\ busPc' = [busPc EXCEPT ![l] = "select"]
  /\ UNCHANGED <<busCur, taken, closed, ackCh, chanCount>>

\* InMemoryEventBus.ReceiveEvents: sets the flag and starts the goroutine
ReceiveEvents(l) ==
  /\ startReceiving' = TRUE
  /\ busPc' = [busPc EXCEPT ![l] = "select"]
  /\ UNCHANGED <<busCur, taken, closed, ackCh, chanCount>>

\* the goroutine making one acknowledgment channel and using it for every
\* item: a faulty variant
BusReceivePublishedOneChannel(l, ev) ==
  /\ busPc[l] = "select"
  /\ busPc' = [busPc EXCEPT ![l] = "hand"]
  /\ busCur' = [busCur EXCEPT ![l] = ev]
  /\ taken' = taken \cup {ev}
  /\ chanCount' = 1
  /\ ackCh' = [ackCh EXCEPT ![l] = 1]
  /\ UNCHANGED closed

\* case versionedEvent := <-bus.publishedEventsChannel, and
\* ackCh := make(chan bool)
BusReceivePublished(l, ev) ==
  /\ busPc[l] = "select"
  /\ busPc' = [busPc EXCEPT ![l] = "hand"]
  /\ busCur' = [busCur EXCEPT ![l] = ev]
  /\ taken' = taken \cup {ev}
  /\ chanCount' = chanCount + 1
  /\ ackCh' = [ackCh EXCEPT ![l] = chanCount + 1]
  /\ UNCHANGED closed

\* the goroutine going back to its select without waiting on ackCh: a faulty variant
BusHandOverNoWait(l) ==
  /\ busPc[l] = "hand"
  /\ busPc' = [busPc EXCEPT ![l] = "select"]
  /\ UNCHANGED <<busCur, taken, closed, ackCh, chanCount>>

\* options.ReceiveEvent <- VersionedEventTransactedAccept{versionedEvent, ackCh}
BusHandOver(l) ==
  /\ busPc[l] = "hand"
  /\ busPc' = [busPc EXCEPT ![l] = "waitack"]
  /\ UNCHANGED <<busCur, taken, closed, ackCh, chanCount>>

\* <-ackCh, then back to the select
BusAcked(l) ==
  /\ busPc[l] = "waitack"
  /\ busPc' = [busPc EXCEPT ![l] = "select"]
  /\ busCur' = [busCur EXCEPT ![l] = NoItem]
  /\ ackCh' = [ackCh EXCEPT ![l] = 0]
  /\ UNCHANGED <<taken, closed, chanCount>>

\* case ch := <-options.Close
BusReceiveClose(l) ==
  /\ busPc[l] = "select"
  /\ busPc' = [busPc EXCEPT ![l] = "reply"]
  /\ UNCHANGED <<busCur, taken, closed, ackCh, chanCount>>

\* ch <- nil, then back to the select: the for loop has no exit
BusReply(l) ==
  /\ busPc[l] = "reply"
  /\ busPc' = [busPc EXCEPT ![l] = "select"]
  /\ closed' = closed \cup {l}
  /\ UNCHANGED <<busCur, taken, ackCh, chanCount>>

\* ------------------------------------------------------------ Listen
\* Listen up to its loop: ReceiveEvents returned err; a non-nil err is returned
ListenStart(l, err) ==
  /\ listenPc[l] = "idle"
  /\ listenPc' = [listenPc EXCEPT ![l] = IF err = Nil THEN "select" ELSE "returned"]
  /\ listenRet' = [listenRet EXCEPT ![l] = err]
  /\ UNCHANGED <<listenCur, listenErr, delivered, acked, failed, listenAckCh, ackLog>>

\* case event := <-receiveEventChannel
ListenReceive(l, ev, ch) ==
  /\ listenPc[l] = "select"
  /\ listenPc' = [listenPc EXCEPT ![l] = "dispatch"]
  /\ listenCur' = [listenCur EXCEPT ![l] = ev]
  /\ delivered' = [delivered EXCEPT ![l] = Append(@, ev)]
  /\ listenAckCh' = [listenAckCh EXCEPT ![l] = ch]
  /\ UNCHANGED <<listenErr, listenRet, acked, failed, ackLog>>

\* Listen returning the error of DispatchEvent: a faulty variant
ListenDispatchReturnOnError(l, failing) ==
  /\ listenPc[l] = "dispatch"
  /\ LET r == DispatchEvent(registry, globalHandlers, failing, listenCur[l].type) IN
       /\ listenErr' = [listenErr EXCEPT ![l] = r.err]
       /\ failed' = IF r.err # Nil THEN failed \cup {listenCur[l]} ELSE failed
       /\ listenPc' = [listenPc EXCEPT ![l] = IF r.err # Nil THEN "returned" ELSE "ack"]
       /\ listenRet' = [listenRet EXCEPT ![l] = r.err]
  /\ UNCHANGED <<listenCur, delivered, acked, listenAckCh, ackLog>>

\* the DispatchEvent call of Listen: an error is logged and nothing else
ListenDispatch(l, failing) ==
  /\ listenPc[l] = "dispatch"
  /\ LET r == DispatchEvent(registry, globalHandlers, failing, listenCur[l].type) IN
       /\ listenErr' = [listenErr EXCEPT ![l] = r.err]
       /\ failed' = IF r.err # Nil THEN failed \cup {listenCur[l]} ELSE failed
  /\ listenPc' = [listenPc EXCEPT ![l] = "ack"]
  /\ UNCHANGED <<listenCur, listenRet, delivered, acked, listenAckCh, ackLog>>

\* event.ProcessedSuccessfully <- true
ListenAck(l) ==
  /\ listenPc[l] = "ack"
  /\ listenPc' = [listenPc EXCEPT ![l] = "select"]
  /\ acked' = acked \cup {<<listenCur[l], TRUE>>}
  /\ listenCur' = [listenCur EXCEPT ![l] = NoItem]
  /\ listenErr' = [listenErr EXCEPT ![l] = Nil]
  /\ ackLog' = [ackLog EXCEPT ![l] = Append(@, listenAckCh[l])]
  /\ listenAckCh' = [listenAckCh EXCEPT ![l] = 0]
  /\ UNCHANGED <<listenRet, delivered, failed>>

\* the stop case taken while an item is being dispatched: a faulty variant
ListenStopAnytime(l) ==
  /\ listenPc[l] \in {"select", "dispatch", "ack"}
  /\ listenPc' = [listenPc EXCEPT ![l] = "close"]
  /\ UNCHANGED <<listenCur, listenErr, listenRet, delivered, acked, failed, listenAckCh, ackLog>>

\* case <-stop
ListenStop(l) ==
  /\ listenPc[l] = "select"
  /\ listenPc' = [listenPc EXCEPT ![l] = "close"]
  /\ UNCHANGED <<listenCur, listenErr, listenRet, delivered, acked, failed, listenAckCh, ackLog>>

\* closeChannel <- closeSignal
ListenCloseSend(l) ==
  /\ listenPc[l] = "close"
  /\ listenPc' = [listenPc EXCEPT ![l] = "waitclose"]
  /\ UNCHANGED <<listenCur, listenErr, listenRet, delivered, acked, failed, listenAckCh, ackLog>>

\* return <-closeSignal
ListenCloseRecv(l, v) ==
  /\ listenPc[l] = "waitclose"
  /\ listenPc' = [listenPc EXCEPT ![l] = "returned"]
  /\ listenRet' = [listenRet EXCEPT ![l] = v]
  /\ UNCHANGED <<listenCur, listenErr, delivered, acked, failed, listenAckCh, ackLog>>

\* Listen logging the error and going on with its loop: a faulty variant
ListenErrorContinue(l, e) ==
  /\ listenPc[l] = "select"
  /\ UNCHANGED <<listenPc, listenRet, listenCur, listenErr, delivered, acked, failed,
                 listenAckCh, ackLog>>

\* case err := <-errorChannel: return err
ListenError(l, e) ==
  /\ listenPc[l] = "select"
  /\ listenPc' = [listenPc EXCEPT ![l] = "returned"]
  /\ listenRet' = [listenRet EXCEPT ![l] = e]
  /\ UNCHANGED <<listenCur, listenErr, delivered, acked, failed, listenAckCh, ackLog>>

\* ------------------------------- Listen on an InMemoryEventBus: the steps
\* a step is one goroutine's own move, or the rendezvous of a send and a
\* receive on an unbuffered channel, which moves both goroutines

\* Listen is called: ReceiveEvents of the in-memory bus returns nil
Listen(l) ==
  /\ ListenStart(l, Nil)
  /\ ReceiveEvents(l)
  /\ UNCHANGED <<otherVars, dispVars, pubVars, stopPc>>

\* publishedEventsChannel: a publisher's send meets a bus goroutine's receive
Publish(p, l) ==
  /\ pubPc[p] = "sending"
  /\ BusReceivePublished(l, PubOffer(p))
  /\ PubSend(p)
  /\ UNCHANGED <<otherVars, dispVars, startReceiving, listenVars, stopPc>>

\* options.ReceiveEvent: the bus goroutine's send meets Listen's receive
HandOver(l) ==
  /\ BusHandOver(l)
  /\ ListenReceive(l, busCur[l], ackCh[l])
  /\ UNCHANGED <<otherVars, dispVars, startReceiving, pubVars, stopPc>>

\* the handlers DispatchEvent can call: those of the map and the global ones
RegisteredHandlers ==
  Range(globalHandlers) \cup UNION {Range(registry[t]) : t \in DOMAIN registry}

\* Listen runs the handlers; which of them fail is up to the handlers, and
\* DispatchEvent returns when no handler is in a call of its own any more
Dispatching(l) ==
  /\ inHandler[l] = 0
  /\ \E failing \in SUBSET RegisteredHandlers : ListenDispatch(l, failing)
  /\ UNCHANGED <<otherVars, dispVars, startReceiving, busVars, pubVars, stopPc>>

\* ackCh: Listen's send meets the bus goroutine's receive
Acknowledge(l) ==
  /\ listenAckCh[l] = ackCh[l]
  /\ ListenAck(l)
  /\ BusAcked(l)
  /\ UNCHANGED <<otherVars, dispVars, startReceiving, pubVars, stopPc>>

\* some task starts to send on the stop channel of a running Listen
StopSignal(l) ==
  /\ stopPc[l] = "idle"
  /\ listenPc[l] \notin {"idle", "returned"}
  /\ stopPc' = [stopPc EXCEPT ![l] = "sending"]
  /\ UNCHANGED <<otherVars, dispVars, startReceiving, busVars, pubVars, listenVars>>

\* stop: the sender meets Listen's select
Stop(l) ==
  /\ stopPc[l] = "sending"
  /\ ListenStop(l)
  /\ stopPc' = [stopPc EXCEPT ![l] = "sent"]
  /\ UNCHANGED <<otherVars, dispVars, startReceiving, busVars, pubVars>>

\* closeChannel: Listen's send meets the bus goroutine's select
CloseRequest(l) ==
  /\ ListenCloseSend(l)
  /\ BusReceiveClose(l)
  /\ UNCHANGED <<otherVars, dispVars, startReceiving, pubVars, stopPc>>

\* the bus goroutine answering a close request with an error: a faulty variant
CloseReplyError(l) ==
  /\ BusReply(l)
  /\ \E e \in Errors : ListenCloseRecv(l, e)
  /\ UNCHANGED <<otherVars, dispVars, startReceiving, pubVars, stopPc>>

\* closeSignal: the bus goroutine's send of nil meets Listen's receive
CloseReply(l) ==
  /\ BusReply(l)
  /\ ListenCloseRecv(l, Nil)
  /\ UNCHANGED <<otherVars, dispVars, startReceiving, pubVars, stopPc>>

\* the dispatcher as set up before Listen: handler 1 for type 1, handler 2 global
InitRegistered ==
  /\ registry = RegisterEventHandler(NewRegistry, 1, 1)
  /\ globalHandlers = RegisterGlobalHandler(NewGlobalHandlers, 2)
  /\ typeRegistry = {1}
  /\ regLog = <<[type |-> 1, handler |-> 1], [type |-> 0, handler |-> 2]>>
  /\ lastDispatch = NoDispatch

Init == InitRegistered /\ InitIdle /\ budget = MaxItems

\* one dispatch manager listening on one bus, any publishers, one stop signal;
\* the events published have the type the handler is registered for
Next ==
  \/ Listen(1)
  \/ \E p \in Pubs, tys \in BatchesOf({1}) : PublisherCall(p, tys)
  \/ \E p \in Pubs, l \in Loops : Publish(p, l)
  \/ \E l \in Loops : HandOver(l)
  \/ \E l \in Loops : Dispatching(l)
  \/ \E l \in Loops : Acknowledge(l)
  \/ \E l \in Loops : StopSignal(l)
  \/ \E l \in Loops : Stop(l)
  \/ \E l \in Loops : CloseRequest(l)
  \/ \E l \in Loops : CloseReply(l)

Spec == Init /\ [][Next]_vars

\* The Go scheduler runs every goroutine that can move, and a select picks
\* among its ready cases at random, so no step that is ready again and again
\* is put off forever. Calls of PublishEvents and of Listen and the sending of
\* the stop signal are the callers' choice and carry no fairness.
Fairness ==
  /\ \A p \in Pubs, l \in Loops : SF_vars(Publish(p, l))
  /\ \A l \in Loops :
        /\ SF_vars(HandOver(l))
        /\ SF_vars(Dispatching(l))
        /\ SF_vars(Acknowledge(l))
        /\ SF_vars(Stop(l))
        /\ SF_vars(CloseRequest(l))
        /\ SF_vars(CloseReply(l))

LiveSpec == Spec /\ Fairness

\* ------------------------------- handlers that publish on the same bus
\* a handler called by DispatchEvent in Listen loop l calls PublishEvents on
\* the bus: the call is made in Listen's goroutine
HandlerPublish(l, p, tys) ==
  /\ listenPc[l] = "dispatch"
  /\ inHandler[l] = 0
  /\ \A m \in Loops : inHandler[m] # p
  /\ PublishEvents(p, tys)
  /\ inHandler' = [inHandler EXCEPT ![l] = p]
  /\ UNCHANGED <<recvVars, testVars, budget, dispVars, startReceiving, busVars, listenVars, stopPc>>

\* the handler going on without waiting for PublishEvents: a faulty variant
HandlerReturnEarly(l) ==
  /\ inHandler[l] # 0
  /\ inHandler' = [inHandler EXCEPT ![l] = 0]
  /\ UNCHANGED <<recvVars, testVars, budget, dispVars, startReceiving, busVars, pubVars,
                 listenVars, stopPc>>

\* the PublishEvents call of the handler has returned: the handler goes on
HandlerReturn(l) ==
  /\ inHandler[l] # 0
  /\ pubPc[inHandler[l]] = "returned"
  /\ inHandler' = [inHandler EXCEPT ![l] = 0]
  /\ UNCHANGED <<recvVars, testVars, budget, dispVars, startReceiving, busVars, pubVars,
                 listenVars, stopPc>>

\* one Listen loop on the bus, whose handlers may publish
NextReentrant ==
  \/ Listen(1)
  \/ \E p \in Pubs, tys \in BatchesOf({1}) : PublisherCall(p, tys)
  \/ \E p \in Pubs, l \in Loops : Publish(p, l)
  \/ \E l \in Loops : HandOver(l)
  \/ \E l \in Loops, p \in Pubs, tys \in BatchesOf({1}) : HandlerPublish(l, p, tys)
  \/ \E l \in Loops : HandlerReturn(l)
  \/ \E l \in Loops : Dispatching(l)
  \/ \E l \in Loops : Acknowledge(l)
  \/ \E l \in Loops : StopSignal(l)
  \/ \E l \in Loops : Stop(l)
  \/ \E l \in Loops : CloseRequest(l)
  \/ \E l \in Loops : CloseReply(l)

SpecReentrant == Init /\ [][NextReentrant]_vars

\* ------------------------------------ several Listen loops on one bus
\* Listen is called once per loop, each call with channels of its own: every
\* call of ReceiveEvents starts one more goroutine reading the one
\* publishedEventsChannel (the Exclusive option is not looked at). No loop
\* is told to stop.
NextMulti ==
  \/ \E l \in Loops : Listen(l)
  \/ \E tys \in BatchesOf({1}) : PublisherCall(1, tys)
  \/ \E l \in Loops : Publish(1, l)
  \/ \E l \in Loops : HandOver(l)
  \/ \E l \in Loops : Dispatching(l)
  \/ \E l \in Loops : Acknowledge(l)

\* a Listen loop that is not told to stop has one ready case at a time: the
\* handshake on an item moves on whenever its next step can be taken
FairnessMulti ==
  \A l \in Loops : WF_vars(HandOver(l) \/ Dispatching(l) \/ Acknowledge(l))

SpecMulti == Init /\ [][NextMulti]_vars /\ FairnessMulti

\* ------------------------------------------------ Listen called again
\* Listen is called again on the same manager and bus once the call before
\* it has returned; the new call makes its own channels and ReceiveEvents
\* starts one more goroutine
ListenAgain(l) ==
  /\ l > 1
  /\ listenPc[l - 1] = "returned"
  /\ Listen(l)

\* the stop signal is sent to every Listen call but the last one
StopSignalBeforeLast(l) ==
  /\ l < NumLoops
  /\ StopSignal(l)

\* PublishEvents is called when the last Listen call has attached
PublishAfterRestart(p, tys) ==
  /\ listenPc[NumLoops] # "idle"
  /\ PublisherCall(p, tys)

NextRestart ==
  \/ Listen(1)
  \/ \E l \in Loops : ListenAgain(l)
  \/ \E p \in Pubs, tys \in BatchesOf({1}) : PublishAfterRestart(p, tys)
  \/ \E p \in Pubs, l \in Loops : Publish(p, l)
  \/ \E l \in Loops : HandOver(l)
  \/ \E l \in Loops : Dispatching(l)
  \/ \E l \in Loops : Acknowledge(l)
  \/ \E l \in Loops : StopSignalBeforeLast(l)
  \/ \E l \in Loops : Stop(l)
  \/ \E l \in Loops : CloseRequest(l)
  \/ \E l \in Loops : CloseReply(l)

SpecRestart == Init /\ [][NextRestart]_vars /\ Fairness

\* ------------------- Listen on a receiver other than the in-memory bus
\* Any VersionedEventReceiver: ReceiveEvents returns nil or an error; once
\* started, one goroutine of the receiver hands events over on ReceiveEvent,
\* waits for each acknowledgment and serves Close, and the receiver may send
\* one error on Error at any time.

\* Listen is called and the receiver's ReceiveEvents returns err
RecvListen(l, err) ==
  /\ ListenStart(l, err)
  /\ startErr' = [startErr EXCEPT ![l] = err]
  /\ recvPc' = [recvPc EXCEPT ![l] = IF err = Nil THEN "ready" ELSE "none"]
  /\ UNCHANGED <<recvCur, errPc, errVal>>
  /\ UNCHANGED <<testVars, budget, inHandler, dispVars, startReceiving, busVars, pubVars, stopPc>>

\* the receiver has an event of type t to hand over
RecvEvent(l, t) ==
  /\ recvPc[l] = "ready"
  /\ Len(delivered[l]) < MaxItems
  /\ recvPc' = [recvPc EXCEPT ![l] = "hand"]
  /\ recvCur' = [recvCur EXCEPT ![l] =
                   [pub |-> 1, seq |-> Len(delivered[l]) + 1, type |-> t]]
  /\ UNCHANGED <<errPc, errVal, startErr>>
  /\ UNCHANGED <<testVars, budget, inHandler, dispVars, startReceiving, busVars, pubVars, listenVars, stopPc>>

\* ReceiveEvent: the receiver's send meets Listen's select
RecvHandOver(l) ==
  /\ recvPc[l] = "hand"
  /\ ListenReceive(l, recvCur[l], recvCur[l].seq)
  /\ recvPc' = [recvPc EXCEPT ![l] = "waitack"]
  /\ UNCHANGED <<recvCur, errPc, errVal, startErr>>
  /\ UNCHANGED <<testVars, budget, inHandler, dispVars, startReceiving, busVars, pubVars, stopPc>>

\* ProcessedSuccessfully: Listen's send meets the receiver's receive
RecvAcknowledge(l) ==
  /\ recvPc[l] = "waitack"
  /\ ListenAck(l)
  /\ recvPc' = [recvPc EXCEPT ![l] = "ready"]
  /\ recvCur' = [recvCur EXCEPT ![l] = NoItem]
  /\ UNCHANGED <<errPc, errVal, startErr>>
  /\ UNCHANGED <<testVars, budget, inHandler, dispVars, startReceiving, busVars, pubVars, stopPc>>

\* the receiver meets a transport error e and starts to send it on Error
RecvFail(l, e) ==
  /\ recvPc[l] # "none"
  /\ errPc[l] = "idle"
  /\ errPc' = [errPc EXCEPT ![l] = "sending"]
  /\ errVal' = [errVal EXCEPT ![l] = e]
  /\ UNCHANGED <<recvPc, recvCur, startErr>>
  /\ UNCHANGED <<testVars, budget, inHandler, dispVars, startReceiving, busVars, pubVars, listenVars, stopPc>>

\* Error: the receiver's send meets Listen's select
RecvError(l) ==
  /\ errPc[l] = "sending"
  /\ ListenError(l, errVal[l])
  /\ errPc' = [errPc EXCEPT ![l] = "sent"]
  /\ UNCHANGED <<recvPc, recvCur, errVal, startErr>>
  /\ UNCHANGED <<testVars, budget, inHandler, dispVars, startReceiving, busVars, pubVars, stopPc>>

\* Close: Listen's send meets the receiver's receive
RecvCloseRequest(l) ==
  /\ recvPc[l] = "ready"
  /\ ListenCloseSend(l)
  /\ recvPc' = [recvPc EXCEPT ![l] = "reply"]
  /\ UNCHANGED <<recvCur, errPc, errVal, startErr>>
  /\ UNCHANGED <<testVars, budget, inHandler, dispVars, startReceiving, busVars, pubVars, stopPc>>

\* the close reply: the receiver's send of v meets Listen's receive
RecvCloseReply(l, v) ==
  /\ recvPc[l] = "reply"
  /\ ListenCloseRecv(l, v)
  /\ recvPc' = [recvPc EXCEPT ![l] = "closed"]
  /\ UNCHANGED <<recvCur, errPc, errVal, startErr>>
  /\ UNCHANGED <<testVars, budget, inHandler, dispVars, startReceiving, busVars, pubVars, stopPc>>

InitRecv == InitRegistered /\ InitIdle /\ budget = MaxItems

NextRecv ==
  \/ \E err \in {Nil} \cup Errors : RecvListen(1, err)
  \/ \E l \in Loops, t \in Types : RecvEvent(l, t)
  \/ \E l \in Loops : RecvHandOver(l)
  \/ \E l \in Loops : Dispatching(l)
  \/ \E l \in Loops : RecvAcknowledge(l)
  \/ \E l \in Loops, e \in Errors : RecvFail(l, e)
  \/ \E l \in Loops : RecvError(l)
  \/ \E l \in Loops : StopSignal(l)
  \/ \E l \in Loops : Stop(l)
  \/ \E l \in Loops : RecvCloseRequest(l)
  \/ \E l \in Loops, v \in {Nil} \cup Errors : RecvCloseReply(l, v)

SpecRecv == InitRecv /\ [][NextRecv]_vars

\* ------------------------------------------- the in-memory bus test
\* The main goroutine of the test attaches itself as receiver 1, starts the
\* publishing tasks, takes one item, acknowledges it and closes. The tasks
\* publish budget items in all: the test itself has one task publishing one
\* item (budget = 1). The test's five second timeout is left out.

\* bus.ReceiveCommands(options) returns nil
TestReceiveEvents ==
  /\ testPc = "start"
  /\ ReceiveEvents(1)
  /\ testPc' = "go"
  /\ UNCHANGED <<testGot, budget, inHandler, recvVars, dispVars, pubVars, listenVars, stopPc>>

\* go func() { bus.PublishCommands(...) }()
TestGo ==
  /\ testPc = "go"
  /\ testPc' = "select"
  /\ UNCHANGED <<testGot, budget, inHandler, recvVars, dispVars, startReceiving, busVars, pubVars,
                 listenVars, stopPc>>

\* a publishing task, started by the go statement, calls PublishEvents
TestPublish(p, tys) ==
  /\ testPc \notin {"start", "go"}
  /\ PublisherCall(p, tys)

\* case command := <-receiveCommandChannel
TestReceive ==
  /\ testPc = "select"
  /\ BusHandOver(1)
  /\ testGot' = busCur[1]
  /\ testPc' = "ack"
  /\ UNCHANGED <<budget, inHandler, recvVars, dispVars, startReceiving, pubVars, listenVars, stopPc>>

\* command.ProcessedSuccessfully <- true
TestAck ==
  /\ testPc = "ack"
  /\ BusAcked(1)
  /\ acked' = acked \cup {<<testGot, TRUE>>}
  /\ testPc' = "closesend"
  /\ UNCHANGED <<listenPc, listenCur, listenErr, listenRet, delivered, failed,
                 listenAckCh, ackLog>>
  /\ UNCHANGED <<testGot, budget, inHandler, recvVars, dispVars, startReceiving, pubVars, stopPc>>

\* closeChannel <- closeResponse
TestCloseSend ==
  /\ testPc = "closesend"
  /\ BusReceiveClose(1)
  /\ testPc' = "closerecv"
  /\ UNCHANGED <<testGot, budget, inHandler, recvVars, dispVars, startReceiving, pubVars, listenVars, stopPc>>

\* <-closeResponse
TestCloseRecv ==
  /\ testPc = "closerecv"
  /\ BusReply(1)
  /\ testPc' = "done"
  /\ UNCHANGED <<testGot, budget, inHandler, recvVars, dispVars, startReceiving, pubVars, listenVars, stopPc>>

InitTest == InitDispatcher /\ InitIdle /\ budget \in 1..MaxItems

NextTest ==
  \/ TestReceiveEvents
  \/ TestGo
  \/ \E p \in Pubs, tys \in BatchesOf(Types) : TestPublish(p, tys)
  \/ \E p \in Pubs, l \in Loops : Publish(p, l)
  \/ TestReceive
  \/ TestAck
  \/ TestCloseSend
  \/ TestCloseRecv

\* every step of the test is a step of a goroutine that can run
SpecTest == InitTest /\ [][NextTest]_vars /\ WF_vars(NextTest)

\* ------------------------------------------------ claims on the dispatcher
\* the position of the first handler of hs that fails, 0 when none does
FirstFailing(hs, failing) ==
  IF \E i \in 1..Len(hs) : hs[i] \in failing
    THEN CHOOSE i \in 1..Len(hs) :
           /\ hs[i] \in failing
           /\ \A j \in 1..(i - 1) : hs[j] \notin failing
    ELSE 0

\* the handlers the registration calls gave to type t (0: global), in call order
HandlersOf(log, t) ==
  LET sel == SelectSeq(log, LAMBDA r : r.type = t)
  IN  [i \in 1..Len(sel) |-> sel[i].handler]

\* C5: DispatchEvent short-circuits. If a handler registered for the item's
\* type fails, the handlers called are exactly those up to and including it
\* (no later one, no global one) and its error is returned; if all of them
\* succeed (or the type has none) the global handlers are called afterwards,
\* up to and including the first that fails, whose error is returned.
C5_ShortCircuit ==
  lastDispatch.type # 0 =>
    LET d == lastDispatch
        typed == IF d.type \in DOMAIN registry THEN registry[d.type] ELSE <<>>
        k == FirstFailing(typed, d.failing)
        g == FirstFailing(globalHandlers, d.failing)
    IN  /\ k > 0 => /\ d.invoked = SubSeq(typed, 1, k)
                    /\ d.err = HandlerErr(typed[k])
        /\ (k = 0 /\ g > 0) =>
              /\ d.invoked = typed \o SubSeq(globalHandlers, 1, g)
              /\ d.err = HandlerErr(globalHandlers[g])
        /\ (k = 0 /\ g = 0) =>
              /\ d.invoked = typed \o globalHandlers
              /\ d.err = Nil

\* a dispatch where the first of two handlers of the type failed, with a
\* global handler registered: only that first handler was called
C5_Witness ==
  /\ lastDispatch.type \in DOMAIN registry
  /\ Len(registry[lastDispatch.type]) = 2
  /\ globalHandlers # <<>>
  /\ registry[lastDispatch.type][1] \in lastDispatch.failing
  /\ lastDispatch.invoked = <<registry[lastDispatch.type][1]>>
  /\ lastDispatch.err = HandlerErr(registry[lastDispatch.type][1])

\* C10: when no handler called for the item fails, DispatchEvent calls the
\* handlers registered for the item's type, once per registration and in
\* registration order, then the global handlers likewise, and no other.
C10_AllInOrder ==
  LET d == lastDispatch
      typed == HandlersOf(regLog, d.type)
      glob == HandlersOf(regLog, 0)
  IN  (/\ d.type # 0
       /\ \A i \in 1..Len(typed) : typed[i] \notin d.failing
       /\ \A i \in 1..Len(glob) : glob[i] \notin d.failing)
      => /\ d.invoked = typed \o glob
         /\ d.err = Nil

\* a dispatch with no failure where the type has two handlers and a global
\* handler follows them
C10_Witness ==
  /\ lastDispatch.type # 0
  /\ lastDispatch.failing = {}
  /\ Len(HandlersOf(regLog, lastDispatch.type)) = 2
  /\ HandlersOf(regLog, lastDispatch.type)[1] # HandlersOf(regLog, lastDispatch.type)[2]
  /\ Len(HandlersOf(regLog, 0)) = 1
  /\ Len(lastDispatch.invoked) = 3

\* ------------------------------------------------------ claims on the bus
AckedItems == {a[1] : a \in acked}

\* the items passed to PublishEvents so far
PublishedItems == dropped \cup taken \cup UNION {Range(pubBatch[p]) : p \in Pubs}

\* C1 as stated: PublishEvents on a bus with a receiver attached has not
\* returned before the acknowledgment of every item of its batch, the last
\* one included, was sent.
C1_ReturnAfterEveryAck ==
  \A p \in Pubs :
    (pubPc[p] = "returned" /\ Range(pubBatch[p]) \cap dropped = {})
      => Range(pubBatch[p]) \subseteq AckedItems

\* C1 amended: PublishEvents on a bus with one receiver attached does not
\* return before the bus goroutine has taken every item of the batch, nor
\* before the acknowledgment of every item but the last was sent; every item
\* already sent has been taken and every item before it acknowledged.
C1_ReturnAfterTaken ==
  \A p \in Pubs : \A i \in 1..Len(pubBatch[p]) :
    pubBatch[p][i] \notin dropped =>
      /\ pubPc[p] = "returned" => pubBatch[p][i] \in taken
      /\ (pubPc[p] = "returned" /\ i < Len(pubBatch[p])) => pubBatch[p][i] \in AckedItems
      /\ i <= pubIdx[p] => pubBatch[p][i] \in taken
      /\ i < pubIdx[p] => pubBatch[p][i] \in AckedItems

\* PublishEvents has returned from a batch of two: the first item was
\* acknowledged, the last one was taken and is not acknowledged yet
C1_Witness ==
  \E p \in Pubs :
    /\ pubPc[p] = "returned"
    /\ Len(pubBatch[p]) = 2
    /\ pubBatch[p][1] \in AckedItems
    /\ pubBatch[p][2] \in taken \ AckedItems

\* C2: the items of a publisher reach Listen in the order it published them,
\* and the bus has taken an item only if every item the same publisher
\* published before it (with the receiver attached) was acknowledged.
C2_OrderAndHandshake ==
  /\ \A l \in Loops : \A i, j \in 1..Len(delivered[l]) :
       (i < j /\ delivered[l][i].pub = delivered[l][j].pub)
         => delivered[l][i].seq < delivered[l][j].seq
  /\ \A y \in taken : \A x \in PublishedItems \ dropped :
       (x.pub = y.pub /\ x.seq < y.seq) => x \in AckedItems

\* Listen has received three items of two publishers, two of them from one
\* publisher
C2_Witness ==
  \E l \in Loops :
    /\ Len(delivered[l]) = 3
    /\ \E i, j \in 1..3 : delivered[l][i].pub # delivered[l][j].pub
    /\ \E i, j \in 1..3 : i # j /\ delivered[l][i].pub = delivered[l][j].pub

\* C3 as stated: once the bus goroutine has answered a close request it has
\* terminated: it stays where it is, takes no further item from the publish
\* channel and hands no further item over.
C3_ClosedIsTerminal ==
  [][\A l \in closed : /\ busPc'[l] = busPc[l]
                       /\ taken' = taken
                       /\ delivered'[l] = delivered[l]]_vars

\* C4 as stated: once the stop signal is being sent to a running Listen,
\* Listen eventually returns nil.
C4_StopLeadsToReturn ==
  \A l \in Loops :
    (stopPc[l] = "sending") ~> (listenPc[l] = "returned" /\ listenRet[l] = Nil)

\* C6: a dispatch error does not end Listen. An item whose dispatch failed is
\* acknowledged with true (or Listen is about to send that), no item is
\* received twice, every acknowledgment is true, and Listen returns only
\* after the stop signal, with nil.
C6_DispatchFailureAbsorbed ==
  /\ \A it \in failed :
       \/ <<it, TRUE>> \in acked
       \/ \E l \in Loops : listenPc[l] = "ack" /\ listenCur[l] = it /\ listenErr[l] # Nil
  /\ \A l, m \in Loops : \A i \in 1..Len(delivered[l]), j \in 1..Len(delivered[m]) :
       delivered[l][i] = delivered[m][j] => (l = m /\ i = j)
  /\ \A a \in acked : a[2] = TRUE
  /\ \A l \in Loops :
       listenPc[l] = "returned" => (stopPc[l] = "sent" /\ listenRet[l] = Nil)

\* after an item whose dispatch failed, Listen has received, dispatched and
\* acknowledged the next item
C6_Witness ==
  \E l \in Loops :
    /\ Len(delivered[l]) >= 2
    /\ delivered[l][1] \in failed
    /\ delivered[l][2] \in AckedItems
    /\ listenPc[l] = "select"

\* C8: at most one item is in flight: taken by a bus goroutine and not yet
\* acknowledged; a bus goroutine at its select has none, and no two Listen
\* loops run handlers at the same time.
C8_OneInFlight ==
  /\ Cardinality(taken \ AckedItems) <= 1
  /\ \A l \in Loops : busPc[l] \in {"select", "reply"} => taken \subseteq AckedItems
  /\ Cardinality({l \in Loops : listenPc[l] = "dispatch"}) <= 1

\* an item is being dispatched while two publishers are blocked in their sends
C8_Witness ==
  /\ \E l \in Loops : listenPc[l] = "dispatch" /\ busPc[l] = "waitack"
  /\ \A p \in Pubs : pubPc[p] = "sending"
  /\ Cardinality(taken \ AckedItems) = 1

\* C7: a transport failure ends Listen. Once the receiver's error was taken
\* from the Error channel Listen has returned exactly that error; when
\* ReceiveEvents returned an error Listen has returned it and received
\* nothing; and a Listen that has returned receives, dispatches and
\* acknowledges nothing more.
C7_TransportFailureFatal ==
  /\ [](\A l \in Loops :
          /\ errPc[l] = "sent" =>
               /\ listenPc[l] = "returned"
               /\ listenRet[l] = errVal[l]
               /\ listenRet[l] \in Errors
          /\ startErr[l] # Nil =>
               /\ listenPc[l] = "returned"
               /\ listenRet[l] = startErr[l]
               /\ delivered[l] = <<>>)
  /\ [][\A l \in Loops :
          listenPc[l] = "returned" =>
            /\ listenPc'[l] = "returned"
            /\ delivered'[l] = delivered[l]
            /\ acked' = acked
            /\ failed' = failed]_vars

\* Listen has dispatched one item and then returned the receiver's error,
\* while the receiver was offering a second item, which stays undispatched
C7_Witness ==
  \E l \in Loops :
    /\ errPc[l] = "sent"
    /\ listenPc[l] = "returned"
    /\ listenRet[l] = errVal[l]
    /\ Len(delivered[l]) = 1
    /\ recvPc[l] = "hand"

\* C9: in the test with one item published, the main goroutine reaches its
\* end: the item it took is the item published, it was acknowledged, and the
\* close request sent after the acknowledgment was answered.
C9_TestCompletes ==
  /\ (budget = 1) ~> (testPc = "done")
  /\ [](testPc \in {"ack", "closesend", "closerecv", "done"} =>
          /\ testGot \in PublishedItems \ dropped
          /\ budget = 1 => PublishedItems = {testGot})
  /\ [](testPc = "done" => (1 \in closed /\ testGot \in AckedItems))

\* the test with one item published has read the close reply
C9_Witness ==
  /\ budget = 1
  /\ testPc = "done"
  /\ PublishedItems = {testGot}
  /\ \A q \in Pubs : pubPc[q] \in {"idle", "returned"}
  /\ testGot \in AckedItems
  /\ 1 \in closed

\* C11: while ReceiveEvents was never called on the bus (which is when
\* startReceiving is false), a call of PublishEvents returns at once, without
\* a send, and its events are dropped; a dropped event is never taken by a
\* bus goroutine, never received by a Listen loop and never acknowledged, also
\* not after a receiver was attached.
C11_IdlePublishDropped ==
  /\ [](/\ startReceiving = (\E l \in Loops : busPc[l] # "none")
        /\ dropped \cap taken = {}
        /\ dropped \cap AckedItems = {}
        /\ \A l \in Loops : Range(delivered[l]) \cap dropped = {}
        /\ \A p \in Pubs : pubPc[p] = "sending" => PubOffer(p) \notin dropped)
  /\ [][\A p \in Pubs :
          (/\ \A l \in Loops : busPc[l] = "none"
           /\ pubPc'[p] # pubPc[p] \/ pubSeq'[p] # pubSeq[p])
            => /\ pubPc'[p] = "returned"
               /\ pubIdx'[p] = 0
               /\ Range(pubBatch'[p]) \subseteq dropped'
               /\ taken' = taken]_vars

\* two events were published before Listen and dropped; Listen was called
\* afterwards and has received and acknowledged a later event, and nothing else
C11_Witness ==
  /\ Cardinality(dropped) = 2
  /\ \E l \in Loops :
       /\ Len(delivered[l]) = 1
       /\ delivered[l][1] \in AckedItems \ dropped
       /\ listenPc[l] = "select"
  /\ \A p \in Pubs : pubPc[p] = "returned"
  /\ taken \cap dropped = {}

\* C12 as stated: a Listen that was running (ReceiveEvents returned nil) has
\* returned only after the close handshake with its receiver: its close
\* request was received and the reply to it was read, both after the stop
\* signal and after a transport error.
C12_ReturnOnlyAfterClose ==
  \A l \in Loops :
    (listenPc[l] = "returned" /\ startErr[l] = Nil) => recvPc[l] = "closed"

\* C13: the stop signal is observed between item handshakes only. From the
\* receipt of an item to the sending of its acknowledgment Listen does not
\* take the stop signal and sends no close request, and while Listen is
\* closing, or the bus goroutine is answering a close request, no item handed
\* over is left without its acknowledgment.
C13_StopBetweenHandshakes ==
  /\ [](\A l \in Loops :
          (listenPc[l] \in {"close", "waitclose"} \/ busPc[l] = "reply")
            => /\ listenCur[l] = NoItem
               /\ listenAckCh[l] = 0
               /\ Range(delivered[l]) \subseteq AckedItems
               /\ busPc[l] # "waitack")
  /\ [][\A l \in Loops :
          listenPc[l] \in {"dispatch", "ack"}
            => /\ stopPc'[l] = "sent" => stopPc[l] = "sent"
               /\ listenPc'[l] \in {"dispatch", "ack", "select"}
               /\ busPc'[l] = "waitack" \/ listenPc'[l] = "select"
               /\ closed' = closed]_vars

\* the stop signal is offered while Listen is about to acknowledge an item:
\* it has not been taken
C13_Witness ==
  \E l \in Loops :
    /\ stopPc[l] = "sending"
    /\ listenPc[l] = "ack"
    /\ busPc[l] = "waitack"
    /\ listenCur[l] \in taken \ AckedItems

\* C14: the acknowledgment is single-use and sent once per item. The bus
\* goroutine makes a new channel for every item it takes; Listen sends on the
\* channel that came with the item it received, once, when DispatchEvent has
\* returned, and has done so before it receives the next item: no channel is
\* used twice, and the sends made are as many as the items received, less the
\* one being dispatched.
C14_OneAckPerItem ==
  /\ [](/\ chanCount = Cardinality(taken)
        /\ \A l \in Loops :
             /\ \A i \in 1..Len(ackLog[l]) : ackLog[l][i] \in 1..chanCount
             /\ \A m \in Loops : \A i \in 1..Len(ackLog[l]), j \in 1..Len(ackLog[m]) :
                  ackLog[l][i] = ackLog[m][j] => (l = m /\ i = j)
             /\ Len(ackLog[l]) = Len(delivered[l])
                                   - (IF listenPc[l] \in {"dispatch", "ack"} THEN 1 ELSE 0)
             /\ listenPc[l] \in {"dispatch", "ack"}
                  => /\ listenAckCh[l] = ackCh[l]
                     /\ listenAckCh[l] \in 1..chanCount
                     /\ \A m \in Loops : listenAckCh[l] \notin Range(ackLog[m])
             /\ \A m \in Loops : (l # m /\ ackCh[l] # 0) => ackCh[l] # ackCh[m])
  /\ [][\A l \in Loops :
          ackLog'[l] # ackLog[l]
            => /\ listenPc[l] = "ack"
               /\ ackLog'[l] = Append(ackLog[l], listenAckCh[l])
               /\ listenCur[l] = delivered[l][Len(delivered[l])]
               /\ delivered'[l] = delivered[l]]_vars

\* Listen has acknowledged two items, each on its own channel, and is
\* dispatching a third one whose channel has not been used
C14_Witness ==
  \E l \in Loops :
    /\ Len(delivered[l]) = 3
    /\ Len(ackLog[l]) = 2
    /\ ackLog[l][1] # ackLog[l][2]
    /\ listenPc[l] = "dispatch"
    /\ listenAckCh[l] \notin Range(ackLog[l])
    /\ chanCount = 3

\* C15: registration only appends. A RegisterEventHandler call for type T
\* puts the handler at the end of T's list (a new list when T had none),
\* leaves the list of every other type and the global list as they were, and
\* the manager's call adds T to the TypeRegistry; a RegisterGlobalHandler call
\* puts the handler at the end of the global list and leaves the map of the
\* per-type lists as it was.
C15_RegistrationAppends ==
  [][Len(regLog') > Len(regLog) =>
       LET r == regLog'[Len(regLog')] IN
         IF r.type # 0
           THEN /\ DOMAIN registry' = DOMAIN registry \cup {r.type}
                /\ registry'[r.type] =
                     (IF r.type \in DOMAIN registry THEN registry[r.type] ELSE <<>>)
                       \o <<r.handler>>
                /\ \A t \in DOMAIN registry \ {r.type} : registry'[t] = registry[t]
                /\ globalHandlers' = globalHandlers
                /\ typeRegistry' = typeRegistry \cup {r.type}
           ELSE /\ globalHandlers' = globalHandlers \o <<r.handler>>
                /\ registry' = registry]_vars

\* a handler was registered for type 2, then a global one, then one for type
\* 1: the lists of type 2 and the global list are as they were before that
C15_Witness ==
  /\ Len(regLog) = 3
  /\ regLog[1].type = 2 /\ regLog[2].type = 0 /\ regLog[3].type = 1
  /\ registry[2] = <<regLog[1].handler>>
  /\ globalHandlers = <<regLog[2].handler>>
  /\ registry[1] = <<regLog[3].handler>>
  /\ typeRegistry = {1, 2}

\* the items Listen loop l has received
DeliveredTo(l) == Range(delivered[l])

\* C16: with several Listen loops attached to one bus, every event taken from
\* a publisher goes to one loop only. It is taken by one bus goroutine, which
\* holds it for its own Listen loop or has handed it to that loop and to no
\* other, no loop receives it twice, and while no loop is told to stop every
\* event held by a bus goroutine is handed to its Listen loop.
C16_ExactlyOneLoop ==
  /\ [](/\ \A l, m \in Loops : l # m => DeliveredTo(l) \cap DeliveredTo(m) = {}
        /\ \A l \in Loops : \A i, j \in 1..Len(delivered[l]) :
             delivered[l][i] = delivered[l][j] => i = j
        /\ \A l \in Loops : DeliveredTo(l) \subseteq taken
        /\ \A it \in taken :
             Cardinality({l \in Loops : \/ it \in DeliveredTo(l)
                                        \/ busPc[l] = "hand" /\ busCur[l] = it}) = 1)
  /\ \A l \in Loops :
       (busPc[l] = "hand")
         ~> (busPc[l] = "waitack" /\ listenCur[l] = busCur[l])

\* two Listen loops are dispatching one item each at the same time, and one
\* of them has acknowledged an item before
C16_Witness ==
  /\ \A l \in Loops : listenPc[l] = "dispatch" /\ busPc[l] = "waitack"
  /\ \A l \in Loops : stopPc[l] = "idle"
  /\ \E l, m \in Loops : l # m /\ listenCur[l] # listenCur[m]
  /\ \E l \in Loops : Len(delivered[l]) = 2
  /\ Cardinality(taken) = Cardinality(UNION {DeliveredTo(l) : l \in Loops})

\* C17: on an InMemoryEventBus Listen returns through the stop signal only,
\* and returns nil. ReceiveEvents has returned nil and started its goroutine,
\* nothing is ever sent on the Error channel, and a Listen that has returned
\* had taken the stop signal and read the reply to its close request, which
\* was nil, whatever the handlers returned before.
C17_BusListenReturnsNil ==
  \A l \in Loops :
    /\ listenRet[l] = Nil
    /\ startErr[l] = Nil /\ errPc[l] = "idle" /\ errVal[l] = Nil
    /\ listenPc[l] # "idle" => (busPc[l] # "none" /\ startReceiving)
    /\ listenPc[l] \in {"close", "waitclose", "returned"} => stopPc[l] = "sent"
    /\ listenPc[l] = "returned" <=> l \in closed

\* Listen has returned nil after the stop signal, having dispatched an item
\* whose handler failed
C17_Witness ==
  \E l \in Loops :
    /\ listenPc[l] = "returned"
    /\ listenRet[l] = Nil
    /\ stopPc[l] = "sent"
    /\ delivered[l] # <<>>
    /\ delivered[l][1] \in failed

\* C18: with one Listen loop, a handler that calls PublishEvents with a
\* non-empty batch on the same bus stays in that call for ever. The bus
\* goroutine is waiting for the acknowledgment of the item being dispatched,
\* and from then on nothing is taken from the publish channel, no send of any
\* publisher completes, no acknowledgment is sent, and the stop signal is not
\* taken and no close request answered.
C18_HandlerPublishBlocks ==
  /\ [](\A l \in Loops :
          (inHandler[l] # 0 /\ pubPc[inHandler[l]] = "sending")
            => /\ busPc[l] = "waitack"
               /\ listenPc[l] = "dispatch"
               /\ pubIdx[inHandler[l]] = 0)
  /\ [][\A l \in Loops :
          (inHandler[l] # 0 /\ pubPc[inHandler[l]] = "sending")
            => /\ inHandler'[l] = inHandler[l]
               /\ pubPc'[inHandler[l]] = "sending"
               /\ listenPc'[l] = "dispatch"
               /\ busPc' = busPc
               /\ \A p \in Pubs : pubPc[p] = "sending" =>
                    (pubPc'[p] = "sending" /\ pubIdx'[p] = pubIdx[p])
               /\ taken' = taken
               /\ acked' = acked
               /\ stopPc'[l] = "sent" => stopPc[l] = "sent"
               /\ closed' = closed]_vars

\* a handler is in a PublishEvents call with an event to send, while another
\* publisher's call made afterwards and the stop signal are waiting as well
C18_Witness ==
  \E l \in Loops, q \in Pubs :
    /\ inHandler[l] # 0
    /\ q # inHandler[l]
    /\ pubPc[inHandler[l]] = "sending"
    /\ pubPc[q] = "sending"
    /\ pubBatch[inHandler[l]][1].seq < pubBatch[q][1].seq + pubSeq[inHandler[l]]
    /\ stopPc[l] = "sending"
    /\ listenCur[l].pub = q

\* C19 as stated: when Listen was stopped, has returned and was called again
\* on the same bus, every event published from then on is dispatched and
\* acknowledged (an event a bus goroutine has taken is handed over and its
\* acknowledgment received), and every PublishEvents call returns.
C19_RestartResumes ==
  /\ \A l \in Loops : (busCur[l] # NoItem) ~> (busCur[l] = NoItem)
  /\ \A p \in Pubs : (pubPc[p] = "sending") ~> (pubPc[p] = "returned")

====
